---- MODULE Spec2Model ----
(***************************************************************************)
(* A model of SceneMgr (scene_mgr.py): the catalog of scene records, its   *)
(* de-duplication, the satellite-name resolver, the stratified partitioner *)
(* and the bulk copy/move operations over a small filesystem.              *)
(***************************************************************************)
EXTENDS Integers, Sequences, FiniteSets, Bags, TLC

VARIABLES
    path,       \* the path handed to the satellite-name resolver
    sat_ret,    \* what the resolver returned for it
    gdf,        \* gdf[m]: the catalog (a list of records) of scene manager m
    ret,        \* the last call: operation, arguments, catalogs before, result
    rng,        \* the state of the random module's generator
    prev_split, \* the split_train_and_test call before the last call, if any
    fs,         \* the paths that exist in the filesystem
    bulk_calls  \* the number of bulk operations run so far

vars == <<path, sat_ret, gdf, ret, rng, prev_split, fs, bulk_calls>>

satVars == <<path, sat_ret>>
partVars == <<rng, prev_split, fs>>

\* ------------------------------------------------------------------------
\* Bounds
\* ------------------------------------------------------------------------
MaxSegs == 3
MaxLenCat == 3
MaxLenOther == 2
MaxLenSplit == 3
MaxLenFs == 2
MaxN == 2
MaxCalls == 2

\* ------------------------------------------------------------------------
\* Generic helpers
\* ------------------------------------------------------------------------
NoRet == <<>>

RECURSIVE Flatten(_)
Flatten(ss) == IF ss = <<>> THEN <<>> ELSE Head(ss) \o Flatten(Tail(ss))

SeqsUpTo(S, n) == UNION {[1..k -> S] : k \in 0..n}

\* ------------------------------------------------------------------------
\* Strings are sequences of one-character strings.
\* ------------------------------------------------------------------------
LowerCase == <<"a","b","c","d","e","f","g","h","i","j","k","l","m",
               "n","o","p","q","r","s","t","u","v","w","x","y","z">>
UpperCase == <<"A","B","C","D","E","F","G","H","I","J","K","L","M",
               "N","O","P","Q","R","S","T","U","V","W","X","Y","Z">>

\* the upper-case letter of every lower-case letter
ToUpper ==
    [c \in {LowerCase[i] : i \in 1..Len(LowerCase)} |->
        UpperCase[CHOOSE i \in 1..Len(LowerCase) : LowerCase[i] = c]]

\* str.upper() on one character: only lower-case letters change
upper_char(c) == IF c \in DOMAIN ToUpper THEN ToUpper[c] ELSE c

\* str.upper()
upper(s) == [i \in 1..Len(s) |-> upper_char(s[i])]

\* does sub occur in s at the 0-based index i
MatchAt(s, sub, i) ==
    /\ i >= 0
    /\ i + Len(sub) <= Len(s)
    /\ \A k \in 1..Len(sub) : s[i + k] = sub[k]

\* str.rfind(sub): scan the start positions from the right, -1 when absent
RECURSIVE rfind_from(_, _, _)
rfind_from(s, sub, i) ==
    IF i < 0 THEN -1
    ELSE IF MatchAt(s, sub, i) THEN i
    ELSE rfind_from(s, sub, i - 1)

rfind(s, sub) == rfind_from(s, sub, Len(s) - Len(sub))

\* numpy.argmax over a non-empty list: 0-based index of the first maximum
RECURSIVE argmax_from(_, _, _)
argmax_from(xs, i, best) ==
    IF i > Len(xs) THEN best - 1
    ELSE IF xs[i] > xs[best] THEN argmax_from(xs, i + 1, i)
    ELSE argmax_from(xs, i + 1, best)

\* a slip that keeps the last maximum instead of the first
argmax_last(xs) ==
    (CHOOSE i \in 1..Len(xs) :
        /\ \A j \in 1..Len(xs) : xs[j] <= xs[i]
        /\ \A j \in (i+1)..Len(xs) : xs[j] < xs[i]) - 1

argmax(xs) == argmax_from(xs, 2, 1)

\* ------------------------------------------------------------------------
\* Catalog records and the catalog store
\* ------------------------------------------------------------------------
Mgrs == {"m1", "m2"}
None == "None"
NoCall == [op |-> "none"]

Names == {"n1", "n2"}
SatNames == {"K3", "WV3"}

\* directories that hold scenes, as lists of path components ("/" first:
\* an absolute path)
SrcDirs == { <<"/", "a", "scenes", "x">>, <<"/", "b", "scenes", "x">> }

\* SceneInfo, with the region column the partitioner reads
SceneInfo(d, n, r, s) ==
    [sat_name |-> s, absname |-> <<d, n>>, name |-> n, region |-> r]

\* pandas Series.duplicated(keep='last'): a slip that keeps the last record
\* of each name instead of the first
RECURSIVE duplicated_last_from(_, _, _)
duplicated_last_from(xs, i, seen) ==
    IF i < 1 THEN <<>>
    ELSE duplicated_last_from(xs, i - 1, seen \cup {xs[i]}) \o <<xs[i] \in seen>>

name_duplicated_keep_last(xs) == duplicated_last_from(xs, Len(xs), {})

\* pandas Series.duplicated() with its default keep='first': scanning in
\* order, a value is flagged when it has been seen before
RECURSIVE duplicated_from(_, _, _)
duplicated_from(xs, i, seen) ==
    IF i > Len(xs) THEN <<>>
    ELSE <<xs[i] \in seen>> \o duplicated_from(xs, i + 1, seen \cup {xs[i]})

name_duplicated(xs) == duplicated_from(xs, 1, {})

\* the name column of a frame
name_col(df) == [i \in 1..Len(df) |-> df[i].name]

\* Series.isin(values)
isin(xs, values) ==
    [i \in 1..Len(xs) |-> \E j \in 1..Len(values) : values[j] = xs[i]]

\* ~mask
invert(mask) == [i \in 1..Len(mask) |-> ~mask[i]]

\* df[mask]: the rows whose mask entry is true, in order
RECURSIVE select_from(_, _, _)
select_from(df, mask, i) ==
    IF i > Len(df) THEN <<>>
    ELSE (IF mask[i] THEN <<df[i]>> ELSE <<>>) \o select_from(df, mask, i + 1)

select(df, mask) == select_from(df, mask, 1)

\* len(scene_mgr)
len(m) == Len(gdf[m])

\* `if scene_mgr:` -- None is false; a SceneMgr has __len__ and no __bool__,
\* so it is true exactly when its catalog is not empty
truthy(arg) == arg # None /\ len(arg) # 0

\* the split_train_and_test call most recently made, if any
LastSplit == IF ret.op = "split_train_and_test" THEN ret ELSE prev_split

\* the partitioner and the filesystem at rest, for the runs that use neither
InitPartIdle ==
    /\ bulk_calls = 0
    /\ rng = 0
    /\ prev_split = NoCall
    /\ fs = {}

duplicated(m) == select(gdf[m], name_duplicated(name_col(gdf[m])))

exclude_duplicated(m, arg) ==
    IF truthy(arg)
    THEN select(gdf[m], invert(isin(name_col(gdf[m]), name_col(gdf[arg]))))
    ELSE select(gdf[m], invert(name_duplicated(name_col(gdf[m]))))

Duplicated(m) ==
    /\ ret' = [op |-> "duplicated", self |-> m, pre |-> gdf,
               value |-> duplicated(m)]
    /\ prev_split' = LastSplit
    /\ UNCHANGED <<satVars, gdf, rng, fs, bulk_calls>>

ExcludeDuplicated(m, arg) ==
    /\ gdf' = [gdf EXCEPT ![m] = exclude_duplicated(m, arg)]
    /\ ret' = [op |-> "exclude_duplicated", self |-> m, arg |-> arg,
               pre |-> gdf]
    /\ prev_split' = LastSplit
    /\ UNCHANGED <<satVars, rng, fs, bulk_calls>>

\* the catalogs of the de-duplication runs: names repeat, paths differ
CatRecords == {SceneInfo(d, n, "r1", "K3") : d \in SrcDirs, n \in Names}

InitCat ==
    /\ path = <<>>
    /\ sat_ret = NoRet
    /\ \E a \in SeqsUpTo(CatRecords, MaxLenCat),
          b \in SeqsUpTo(CatRecords, MaxLenOther) :
            gdf = [m \in Mgrs |-> IF m = "m1" THEN a ELSE b]
    /\ ret = NoCall
    /\ InitPartIdle

NextCat ==
    \/ \E m \in Mgrs : Duplicated(m)
    \/ \E m \in Mgrs : ExcludeDuplicated(m, None)
    \/ \E m \in Mgrs : \E arg \in Mgrs \ {m} : ExcludeDuplicated(m, arg)

SpecCat == InitCat /\ [][NextCat]_vars

\* ------------------------------------------------------------------------
\* Claims about the catalog store
\* ------------------------------------------------------------------------
\* the rows of df at the positions I, in order
RowsAt(df, I) ==
    [k \in 1..Cardinality(I) |->
        df[CHOOSE i \in I : Cardinality({j \in I : j <= i}) = k]]

\* no two records of df are the same file
UniquePaths(df) ==
    \A i, j \in DOMAIN df : df[i].absname = df[j].absname => i = j

NameCount(df, n) == Cardinality({i \in DOMAIN df : df[i].name = n})

NamesOf(df) == {df[i].name : i \in DOMAIN df}

\* the positions of df that repeat the name of an earlier position
LaterOccurrences(df) ==
    {i \in DOMAIN df : \E j \in 1..(i - 1) : df[j].name = df[i].name}

\* C1 (as stated): duplicated() returns every record whose name occurs two
\* or more times in the catalog, the first occurrence included, in catalog
\* order.
C1_AllOccurrences ==
    (ret.op = "duplicated" /\ UniquePaths(ret.pre[ret.self])) =>
        LET df == ret.pre[ret.self]
        IN  ret.value = RowsAt(df, {i \in DOMAIN df : NameCount(df, df[i].name) >= 2})

\* C1 (amended): duplicated() returns exactly the records whose name already
\* occurred earlier in the catalog (the second and later occurrences), in
\* catalog order; the first occurrence of a name, and so every record whose
\* name occurs once, is never returned.
C1_LaterOccurrences ==
    ret.op = "duplicated" =>
        LET df == ret.pre[ret.self]
        IN  /\ ret.value = RowsAt(df, LaterOccurrences(df))
            /\ \A n \in NamesOf(df) :
                  NameCount(ret.value, n) = NameCount(df, n) - 1
            /\ gdf = ret.pre

\* C1 witness: duplicated() has run on a catalog holding one name three
\* times and returned two records.
C1_Witness ==
    /\ ret.op = "duplicated"
    /\ Len(ret.pre[ret.self]) = 3
    /\ Cardinality(NamesOf(ret.pre[ret.self])) = 1
    /\ Len(ret.value) = 2

\* C2: after exclude_duplicated() without argument no name occurs more than
\* once, every name present before is still present, and the record kept
\* for each name is its first one in the original order, the kept records
\* staying in their relative order.
C2_KeepFirst ==
    (ret.op = "exclude_duplicated" /\ ret.arg = None) =>
        LET before == ret.pre[ret.self]
            after == gdf[ret.self]
        IN  /\ \A n \in NamesOf(after) : NameCount(after, n) = 1
            /\ NamesOf(after) = NamesOf(before)
            /\ after = RowsAt(before, DOMAIN before \ LaterOccurrences(before))
            /\ \A m \in Mgrs \ {ret.self} : gdf[m] = ret.pre[m]

\* C2 witness: exclude_duplicated() has removed a repeated name whose two
\* records differ, and kept the first.
C2_Witness ==
    /\ ret.op = "exclude_duplicated"
    /\ ret.arg = None
    /\ Len(ret.pre[ret.self]) = 3
    /\ Len(gdf[ret.self]) = 2
    /\ ret.pre[ret.self][1].name = ret.pre[ret.self][3].name
    /\ ret.pre[ret.self][1] # ret.pre[ret.self][3]
    /\ gdf[ret.self][1] = ret.pre[ret.self][1]

\* C3: after exclude_duplicated(other) the catalog holds exactly the
\* records of the original catalog whose name does not occur in other, in
\* their original order, for every other catalog including an empty one,
\* and other is left unchanged.
C3_ExcludeOther ==
    (/\ ret.op = "exclude_duplicated"
     /\ ret.arg # None
     /\ UniquePaths(ret.pre[ret.self])) =>
        LET before == ret.pre[ret.self]
            other == ret.pre[ret.arg]
        IN  /\ gdf[ret.self] =
                 RowsAt(before, {i \in DOMAIN before :
                                    before[i].name \notin NamesOf(other)})
            /\ gdf[ret.arg] = other

\* ------------------------------------------------------------------------
\* The random module's generator
\* ------------------------------------------------------------------------
SEED == 42

\* random.seed(42) puts the generator (a Mersenne Twister) in a fixed state;
\* these are the top eight bits of the 32-bit words it then puts out, word
\* by word (2746317213, 478163327, 107420369, ...): getrandbits(k), k <= 8,
\* is the top k bits of the next word
MT_SEED_42 == <<163, 28, 6, 189, 70, 62, 57, 35>>

\* the generator's state is its position in that output; a generator that
\* was never seeded starts at any of them
RngStates == 0..(Len(MT_SEED_42) - 1)

\* a slip that leaves the generator where it is instead of re-seeding it
seed_keeps_state(r, a) == r

\* random.seed(a) on a generator in state r: the new state depends on a
\* alone; the one seed the program uses leads to the start of the output
seed(r, a) == IF a = SEED THEN 0 ELSE a % Len(MT_SEED_42)

\* the state after one word is drawn
advance(r) == (r + 1) % Len(MT_SEED_42)

RECURSIVE pow2(_)
pow2(k) == IF k = 0 THEN 1 ELSE 2 * pow2(k - 1)

\* int.bit_length()
RECURSIVE bit_length(_)
bit_length(n) == IF n = 0 THEN 0 ELSE 1 + bit_length(n \div 2)

\* getrandbits(k) in state r, k <= 8
getrandbits(r, k) == MT_SEED_42[r + 1] \div pow2(8 - k)

\* Random._randbelow(n) in state r: draw bit_length(n) bits until the draw
\* is below n
RECURSIVE randbelow(_, _)
randbelow(r, n) ==
    LET v == getrandbits(r, bit_length(n))
    IN  IF v < n THEN [value |-> v, rng |-> advance(r)]
        ELSE randbelow(advance(r), n)

\* random.shuffle(xs) in state r: for i from the last position down to the
\* second, swap xs[i] with xs[j], j drawn from the positions up to i
RECURSIVE shuffle_from(_, _, _)
shuffle_from(xs, i, r) ==
    IF i < 2 THEN [list |-> xs, rng |-> r]
    ELSE LET d == randbelow(r, i)
             j == d.value + 1
             swapped == [xs EXCEPT ![i] = xs[j], ![j] = xs[i]]
         IN  shuffle_from(swapped, i - 1, d.rng)

shuffle(xs, r) == shuffle_from(xs, Len(xs), r)

\* ------------------------------------------------------------------------
\* Stratified partitioner
\* ------------------------------------------------------------------------
\* Series.unique(): the distinct values in order of first appearance
RECURSIVE unique_from(_, _, _)
unique_from(xs, i, seen) ==
    IF i > Len(xs) THEN <<>>
    ELSE IF xs[i] \in seen THEN unique_from(xs, i + 1, seen)
    ELSE <<xs[i]>> \o unique_from(xs, i + 1, seen \cup {xs[i]})

unique(xs) == unique_from(xs, 1, {})

region_col(df) == [i \in 1..Len(df) |-> df[i].region]
sat_name_col(df) == [i \in 1..Len(df) |-> df[i].sat_name]
absname_col(df) == [i \in 1..Len(df) |-> df[i].absname]

\* the rows of one region, one list per sat_name of sat_names
region_groups(region_df, sat_names) ==
    [si \in 1..Len(sat_names) |->
        SelectSeq(region_df, LAMBDA row : row.sat_name = sat_names[si])]

\* the rows of df, one list per region of regions and sat_name in it
groups_by(df, regions) ==
    Flatten([ri \in 1..Len(regions) |->
        LET region_df == SelectSeq(df, LAMBDA row : row.region = regions[ri])
        IN  region_groups(region_df, unique(sat_name_col(region_df)))])

\* the (region, sat_name) groups in the order the nested loops visit them:
\* regions by first appearance, within a region its sat_names by first
\* appearance, each group's rows in catalog order
groups(df) == groups_by(df, unique(region_col(df)))

\* a slip that rounds a half up instead of to the even neighbour
round_half_up(a, b) == (2 * a + b) \div (2 * b)

\* round(a / b) for a >= 0, b > 0: to the nearest integer, a half to the
\* even neighbour
round(a, b) ==
    LET q == a \div b
        r == a % b
    IN  IF 2 * r < b THEN q
        ELSE IF 2 * r > b THEN q + 1
        ELSE IF q % 2 = 0 THEN q ELSE q + 1

\* ratios, as <<numerator, denominator>>
Ratios == { <<0, 1>>, <<1, 5>>, <<1, 2>>, <<1, 1>> }

\* one pass of split_train_and_test's inner loop: the shuffled names sh of
\* a group are cut after the first n_test_file
split_group(st, group, sh, n_test_file) ==
    [rng |-> sh.rng,
     train |-> st.train \o SubSeq(sh.list, n_test_file + 1, Len(sh.list)),
     test |-> st.test \o SubSeq(sh.list, 1, n_test_file),
     parts |-> Append(st.parts,
                [region |-> group[1].region,
                 sat_name |-> group[1].sat_name,
                 train |-> SubSeq(sh.list, n_test_file + 1, Len(sh.list)),
                 test |-> SubSeq(sh.list, 1, n_test_file)])]

\* split_train_and_test's loops over the groups gs, from the generator
\* state and the lists in st
RECURSIVE split_groups(_, _, _)
split_groups(gs, ratio, st) ==
    IF gs = <<>> THEN st
    ELSE split_groups(Tail(gs), ratio,
            split_group(st, Head(gs),
                        shuffle(name_col(Head(gs)), seed(st.rng, SEED)),
                        round(Len(Head(gs)) * ratio[1], ratio[2])))

split_train_and_test(m, ratio) ==
    split_groups(groups(gdf[m]), ratio,
                 [rng |-> rng, train |-> <<>>, test |-> <<>>, parts |-> <<>>])

SplitTrainAndTest(m, ratio) ==
    \E res \in {split_train_and_test(m, ratio)} :
        /\ ret' = [op |-> "split_train_and_test", self |-> m, ratio |-> ratio,
                   pre |-> gdf, train |-> res.train, test |-> res.test,
                   parts |-> res.parts]
        /\ rng' = res.rng
        /\ prev_split' = LastSplit
        /\ UNCHANGED <<satVars, gdf, fs, bulk_calls>>

\* all the ways to draw k rows of df without replacement, in drawn order
Draws(df, k) ==
    {[i \in 1..k |-> df[f[i]]] :
        f \in {g \in [1..k -> DOMAIN df] :
                  \A a, b \in 1..k : a # b => g[a] # g[b]}}

\* the results sample() can return for the groups gs: per group, DataFrame
\* .sample(frac) draws round(len * frac) of its rows with pandas' own
\* generator, which nothing here seeds
RECURSIVE samples(_, _)
samples(gs, ratio) ==
    IF gs = <<>> THEN {<<>>}
    ELSE {d \o rest :
            d \in Draws(Head(gs), round(Len(Head(gs)) * ratio[1], ratio[2])),
            rest \in samples(Tail(gs), ratio)}

Sample(m, ratio) ==
    /\ \E sampled_df \in samples(groups(gdf[m]), ratio) :
          ret' = [op |-> "sample", self |-> m, ratio |-> ratio, pre |-> gdf,
                  value |-> sampled_df]
    /\ prev_split' = LastSplit
    /\ UNCHANGED <<satVars, gdf, rng, fs, bulk_calls>>

\* ------------------------------------------------------------------------
\* The filesystem: os.path, os and shutil over the set of existing paths
\* ------------------------------------------------------------------------
\* os.path.isabs
isabs(p) == p # <<>> /\ p[1] = "/"

\* os.path.join(a, b): an absolute b discards a
join(a, b) == IF isabs(b) THEN b ELSE a \o b

\* os.path.dirname(absname)
dirname(absname) == absname[1]

\* os.path.basename of a directory
basename(p) == p[Len(p)]

\* os.path.splitext(absname)[0] + '.label'
label_of(absname) == Append(absname[1], absname[2] \o ".label")

\* src_dir[src_dir.rfind('scenes'):] for a directory with a 'scenes'
\* component (every directory of the model has one)
from_scenes(src_dir) ==
    LET at == {i \in 1..Len(src_dir) : src_dir[i] = "scenes"}
        last == CHOOSE i \in at : \A j \in at : j <= i
    IN  SubSeq(src_dir, last, Len(src_dir))

\* a path and the directories above it
Prefixes(p) == {SubSeq(p, 1, k) : k \in 1..Len(p)}

\* os.path.exists in the filesystem f; the working directory <<>> exists
exists(f, p) == p = <<>> \/ p \in f

\* the paths of f at or below root
Under(f, root) ==
    {q \in f : Len(q) >= Len(root) /\ SubSeq(q, 1, Len(root)) = root}

\* the tree at src, re-rooted at dst
Rebased(f, src, dst) ==
    {dst \o SubSeq(q, Len(src) + 1, Len(q)) : q \in Under(f, src)}

\* os.makedirs(p, exist_ok=True)
makedirs(f, p) == f \cup Prefixes(p)

\* shutil.copytree(src, dst): FileNotFoundError without src, FileExistsError
\* when dst exists; else dst is created with the tree of src
copytree(f, src, dst) ==
    IF ~exists(f, src) \/ exists(f, dst)
    THEN [fs |-> f, raised |-> TRUE]
    ELSE [fs |-> f \cup Prefixes(dst) \cup Rebased(f, src, dst),
          raised |-> FALSE]

\* shutil.move(src, dst): into dst when dst is an existing directory (an
\* Error when it already holds an entry of that name), else onto dst;
\* FileNotFoundError without src
move(f, src, dst) ==
    LET real_dst == IF exists(f, dst) THEN Append(dst, basename(src)) ELSE dst
    IN  IF ~exists(f, src) \/ (exists(f, dst) /\ exists(f, real_dst))
        THEN [fs |-> f, raised |-> TRUE]
        ELSE [fs |-> (f \ Under(f, src)) \cup Prefixes(real_dst)
                        \cup Rebased(f, src, real_dst),
              raised |-> FALSE]

\* shutil.copy(file, dst): into dst when dst is an existing directory, else
\* to the file dst, whose directory has to exist
copy(f, file, dst) ==
    IF ~exists(f, file) THEN [fs |-> f, raised |-> TRUE]
    ELSE IF exists(f, dst)
    THEN [fs |-> f \cup {Append(dst, basename(file))}, raised |-> FALSE]
    ELSE IF exists(f, SubSeq(dst, 1, Len(dst) - 1))
    THEN [fs |-> f \cup {dst}, raised |-> FALSE]
    ELSE [fs |-> f, raised |-> TRUE]

\* ------------------------------------------------------------------------
\* Bulk operations.  A loop state st holds the filesystem, the log of the
\* paths the loop has come to, the number of transfers started and whether
\* an exception has left the loop; fault is the transfer the operating
\* system fails (0: none).
\* ------------------------------------------------------------------------
LoopStart(f) == [fs |-> f, log |-> <<>>, calls |-> 0, raised |-> FALSE]

\* one transfer src -> dst with the outcome res of the shutil call: nothing
\* around the call catches its exception
transfer(st, src, dst, res, fault) ==
    LET failed == (st.calls + 1 = fault) \/ res.raised
    IN  [fs |-> IF failed THEN st.fs ELSE res.fs,
         calls |-> st.calls + 1,
         raised |-> failed,
         log |-> Append(st.log,
                   [src |-> src, dst |-> dst, existed |-> exists(st.fs, dst),
                    outcome |-> IF failed THEN "raised" ELSE "done"])]

\* a path the loop passes over without a transfer
pass(st, src, dst, why) ==
    [st EXCEPT !.log = Append(st.log,
        [src |-> src, dst |-> dst, existed |-> exists(st.fs, dst),
         outcome |-> why])]

RECURSIVE move_duplicated_loop(_, _, _, _)
move_duplicated_loop(paths, dst_dir, fault, st) ==
    IF paths = <<>> \/ st.raised THEN st
    ELSE LET src == dirname(Head(paths))
         IN  move_duplicated_loop(Tail(paths), dst_dir, fault,
                transfer(st, src, dst_dir, move(st.fs, src, dst_dir), fault))

move_duplicated(m, dst_dir, fault) ==
    move_duplicated_loop(absname_col(duplicated(m)), dst_dir, fault,
                         LoopStart(fs))

RECURSIVE copy_scenes_loop(_, _, _, _)
copy_scenes_loop(paths, dst_dir, fault, st) ==
    IF paths = <<>> \/ st.raised THEN st
    ELSE LET src_path == dirname(Head(paths))
             dst_path == join(dst_dir, from_scenes(src_path))
         IN  copy_scenes_loop(Tail(paths), dst_dir, fault,
                transfer(st, src_path, dst_path,
                         copytree(st.fs, src_path, dst_path), fault))

copy_scenes(m, dst_dir, fault) ==
    copy_scenes_loop(unique(absname_col(gdf[m])), dst_dir, fault,
                     LoopStart(fs))

RECURSIVE copy_labels_loop(_, _, _, _)
copy_labels_loop(paths, dst_dir, fault, st) ==
    IF paths = <<>> \/ st.raised THEN st
    ELSE LET label == label_of(Head(paths))
         IN  copy_labels_loop(Tail(paths), dst_dir, fault,
                IF exists(st.fs, label)
                THEN transfer(st, label, dst_dir,
                              copy(st.fs, label, dst_dir), fault)
                ELSE pass(st, label, dst_dir, "no label"))

copy_labels(m, dst_dir, fault) ==
    copy_labels_loop(absname_col(gdf[m]), dst_dir, fault, LoopStart(fs))

\* numpy.array_split(xs, n), n >= 1: n chunks, the first len % n of them one
\* longer than the others
array_split(xs, n) ==
    LET each == Len(xs) \div n
        extras == Len(xs) % n
        start(k) == (k - 1) * each + (IF k - 1 < extras THEN k - 1 ELSE extras)
    IN  [k \in 1..n |-> SubSeq(xs, start(k) + 1, start(k + 1))]

\* zip(xs, ys): as long as the shorter of the two
zip(xs, ys) ==
    [k \in 1..(IF Len(xs) < Len(ys) THEN Len(xs) ELSE Len(ys)) |->
        <<xs[k], ys[k]>>]

\* str(idx) for the chunk numbers
str(idx) == ToString(idx)

\* the destinations split_n works with: the list it was given, or the
\* directories 0 .. n-1 under the base directory it was given
dst_paths_of(n, dst) ==
    IF dst.is_list THEN dst.paths
    ELSE [k \in 1..n |-> join(dst.base, <<str(k - 1)>>)]

\* one file of a chunk: its directory goes to dst_dir unless that exists
split_n_file(st, src_dir, dst_path, dst_dir, is_move, fault) ==
    IF exists(st.fs, dst_dir)
    THEN pass(st, src_dir, join(dst_path, dst_dir), "skipped")
    ELSE transfer(st, src_dir, join(dst_path, dst_dir),
            IF is_move THEN move(st.fs, src_dir, join(dst_path, dst_dir))
            ELSE copytree(st.fs, src_dir, join(dst_path, dst_dir)), fault)

\* the loop over the files of one chunk
RECURSIVE split_n_files(_, _, _, _, _)
split_n_files(filenames, dst_path, is_move, fault, st) ==
    IF filenames = <<>> \/ st.raised THEN st
    ELSE split_n_files(Tail(filenames), dst_path, is_move, fault,
            split_n_file(st, dirname(Head(filenames)), dst_path,
                join(dst_path, from_scenes(dirname(Head(filenames)))),
                is_move, fault))

\* the loop over the (chunk, destination) pairs of one group
RECURSIVE split_n_chunks(_, _, _, _)
split_n_chunks(pairs, is_move, fault, st) ==
    IF pairs = <<>> \/ st.raised THEN st
    ELSE split_n_chunks(Tail(pairs), is_move, fault,
            split_n_files(Head(pairs)[1], Head(pairs)[2], is_move, fault, st))

\* one group: its shuffled paths sh are cut in n chunks, paired with the
\* destinations and transferred
split_n_group(ps, group, sh, pairs, is_move, fault) ==
    [rng |-> sh.rng,
     st |-> split_n_chunks(pairs, is_move, fault, ps.st),
     handed |-> Append(ps.handed,
                 [region |-> group[1].region,
                  sat_name |-> group[1].sat_name,
                  shuffled |-> sh.list,
                  pairs |-> pairs])]

split_n_shuffled(ps, group, sh, n, dst_paths, is_move, fault) ==
    split_n_group(ps, group, sh, zip(array_split(sh.list, n), dst_paths),
                  is_move, fault)

\* the loops over the groups gs; ps holds the generator state, the loop
\* state and, per group visited, the chunks handed to the destinations
RECURSIVE split_n_groups(_, _, _, _, _, _)
split_n_groups(gs, n, dst_paths, is_move, fault, ps) ==
    IF gs = <<>> \/ ps.st.raised THEN ps
    ELSE split_n_groups(Tail(gs), n, dst_paths, is_move, fault,
            split_n_shuffled(ps, Head(gs),
                shuffle(absname_col(Head(gs)), seed(ps.rng, SEED)),
                n, dst_paths, is_move, fault))

RECURSIVE makedirs_all(_, _)
makedirs_all(f, ps) ==
    IF ps = <<>> THEN f ELSE makedirs_all(makedirs(f, Head(ps)), Tail(ps))

split_n(m, n, dst, is_move, fault) ==
    LET dst_paths == dst_paths_of(n, dst)
        f0 == IF dst.is_list THEN fs ELSE makedirs_all(fs, dst_paths)
    IN  split_n_groups(groups(gdf[m]), n, dst_paths, is_move, fault,
                       [rng |-> rng, st |-> LoopStart(f0), handed |-> <<>>])

MoveDuplicated(m, dst_dir, fault) ==
    \E st \in {move_duplicated(m, dst_dir, fault)} :
        /\ fs' = st.fs
        /\ ret' = [op |-> "move_duplicated", self |-> m, pre |-> gdf,
                   pre_fs |-> fs, log |-> st.log, raised |-> st.raised]
        /\ prev_split' = LastSplit
        /\ UNCHANGED <<satVars, gdf, rng>>

CopyScenes(m, dst_dir, fault) ==
    \E st \in {copy_scenes(m, dst_dir, fault)} :
        /\ fs' = st.fs
        /\ ret' = [op |-> "copy_scenes", self |-> m, pre |-> gdf,
                   pre_fs |-> fs, log |-> st.log, raised |-> st.raised]
        /\ prev_split' = LastSplit
        /\ UNCHANGED <<satVars, gdf, rng>>

CopyLabels(m, dst_dir, fault) ==
    \E st \in {copy_labels(m, dst_dir, fault)} :
        /\ fs' = st.fs
        /\ ret' = [op |-> "copy_labels", self |-> m, pre |-> gdf,
                   pre_fs |-> fs, log |-> st.log, raised |-> st.raised]
        /\ prev_split' = LastSplit
        /\ UNCHANGED <<satVars, gdf, rng>>

SplitN(m, n, dst, is_move, fault) ==
    \E ps \in {split_n(m, n, dst, is_move, fault)} :
        /\ fs' = ps.st.fs
        /\ rng' = ps.rng
        /\ ret' = [op |-> "split_n", self |-> m, n |-> n,
                   dst_paths |-> dst_paths_of(n, dst), is_move |-> is_move,
                   pre |-> gdf, pre_fs |-> fs, log |-> ps.st.log,
                   raised |-> ps.st.raised, handed |-> ps.handed]
        /\ prev_split' = LastSplit
        /\ UNCHANGED <<satVars, gdf>>

\* ------------------------------------------------------------------------
\* The runs of the partitioner and of the bulk operations
\* ------------------------------------------------------------------------
\* the directories of a catalog, with the directories above them
SourceTree(df) == UNION {Prefixes(dirname(df[i].absname)) : i \in DOMAIN df}

\* the label files of the records of df whose name is in annotated
Labels(df, annotated) ==
    {label_of(df[i].absname) : i \in {j \in DOMAIN df : df[j].name \in annotated}}

BaseDir == [is_list |-> FALSE, base |-> <<"/", "out">>, paths |-> <<>>]

\* the catalogs of the train/test runs: two names in two directories, over
\* three (region, sat_name) groups of two regions
SplitRecords ==
    {SceneInfo(<<"/", "a", "scenes", "x">>, "n1", "r1", "K3"),
     SceneInfo(<<"/", "b", "scenes", "x">>, "n1", "r1", "K3"),
     SceneInfo(<<"/", "a", "scenes", "x">>, "n2", "r1", "K3"),
     SceneInfo(<<"/", "a", "scenes", "x">>, "n1", "r1", "WV3"),
     SceneInfo(<<"/", "b", "scenes", "x">>, "n2", "r2", "K3")}

InitSplit ==
    /\ path = <<>>
    /\ sat_ret = NoRet
    /\ \E a \in SeqsUpTo(SplitRecords, MaxLenSplit) :
          /\ gdf = [m \in Mgrs |-> IF m = "m1" THEN a ELSE <<>>]
          /\ fs = SourceTree(a)
    /\ ret = NoCall
    /\ rng \in RngStates
    /\ prev_split = NoCall
    /\ bulk_calls = 0

NextSplit ==
    \/ \E ratio \in Ratios : SplitTrainAndTest("m1", ratio)
    \/ Sample("m1", <<1, 2>>)
    \/ \E fault \in {0, 1} :
          SplitN("m1", 2, BaseDir, FALSE, fault) /\ UNCHANGED bulk_calls
    \/ ExcludeDuplicated("m1", None)

SpecSplit == InitSplit /\ [][NextSplit]_vars

\* the catalogs of the bulk runs
FsRecords ==
    {SceneInfo(d, n, "r1", s) : d \in SrcDirs, n \in Names, s \in SatNames}

\* what split_n is given as dst_paths: a base directory, absolute or
\* relative, or a list of one or two directories
DstArgs ==
    { BaseDir,
      [is_list |-> FALSE, base |-> <<"out">>, paths |-> <<>>],
      [is_list |-> TRUE, base |-> <<>>, paths |-> << <<"/", "out", "0">> >>],
      [is_list |-> TRUE, base |-> <<>>,
       paths |-> << <<"/", "out", "0">>, <<"/", "out", "1">> >>] }

InitFs ==
    /\ path = <<>>
    /\ sat_ret = NoRet
    /\ \E a \in SeqsUpTo(FsRecords, MaxLenFs), annotated \in SUBSET Names :
          /\ gdf = [m \in Mgrs |-> IF m = "m1" THEN a ELSE <<>>]
          /\ fs = SourceTree(a) \cup Labels(a, annotated)
    /\ ret = NoCall
    /\ rng = seed(0, SEED)
    /\ prev_split = NoCall
    /\ bulk_calls = 0

\* one more bulk operation, of the few a run makes
Counted == bulk_calls < MaxCalls /\ bulk_calls' = bulk_calls + 1

NextFs ==
    \/ \E fault \in 0..MaxLenFs :
          Counted /\ CopyScenes("m1", <<"/", "out">>, fault)
    \/ \E n \in 1..MaxN, dst \in DstArgs, is_move \in BOOLEAN,
          fault \in 0..MaxLenFs :
            Counted /\ SplitN("m1", n, dst, is_move, fault)
    \/ \E fault \in 0..MaxLenFs :
          Counted /\ CopyLabels("m1", <<"/", "out">>, fault)
    \/ \E fault \in 0..MaxLenFs :
          Counted /\ MoveDuplicated("m1", <<"/", "out">>, fault)

SpecFs == InitFs /\ [][NextFs]_vars

\* ------------------------------------------------------------------------
\* Claims about split_train_and_test
\* ------------------------------------------------------------------------
\* the (region, sat_name) pairs of a catalog
GroupKeys(df) == {<<df[i].region, df[i].sat_name>> : i \in DOMAIN df}

\* the names of the rows of a group, as a bag
GroupNames(df, key) ==
    LET rows == SelectSeq(df, LAMBDA row : <<row.region, row.sat_name>> = key)
    IN  [n \in {rows[i].name : i \in DOMAIN rows} |->
            Cardinality({i \in DOMAIN rows : rows[i].name = n})]

BagOfSeq(xs) ==
    [x \in {xs[i] : i \in DOMAIN xs} |->
        Cardinality({i \in DOMAIN xs : xs[i] = x})]

GroupSize(df, key) ==
    Cardinality({i \in DOMAIN df : <<df[i].region, df[i].sat_name>> = key})

\* k is a / b rounded to the nearest integer, a half to the even neighbour
IsRounded(k, a, b) ==
    /\ 2 * (k * b - a) <= b
    /\ 2 * (a - k * b) <= b
    /\ (2 * (k * b - a) = b \/ 2 * (a - k * b) = b) => k % 2 = 0

ElemsOf(xs) == {xs[i] : i \in DOMAIN xs}

\* each group of the catalog is split once, round(g * ratio) of its names to
\* test and the rest to train, and the returned lists are the groups' parts
C5_GroupsSplit ==
    LET df == ret.pre[ret.self]
    IN  /\ {<<ret.parts[k].region, ret.parts[k].sat_name>> :
                k \in DOMAIN ret.parts} = GroupKeys(df)
        /\ Len(ret.parts) = Cardinality(GroupKeys(df))
        /\ \A k \in DOMAIN ret.parts :
              LET part == ret.parts[k]
                  key == <<part.region, part.sat_name>>
                  g == GroupSize(df, key)
              IN  /\ IsRounded(Len(part.test), g * ret.ratio[1], ret.ratio[2])
                  /\ Len(part.train) = g - Len(part.test)
                  /\ BagOfSeq(part.test) (+) BagOfSeq(part.train)
                        = GroupNames(df, key)
        /\ ret.test = Flatten([k \in DOMAIN ret.parts |-> ret.parts[k].test])
        /\ ret.train = Flatten([k \in DOMAIN ret.parts |-> ret.parts[k].train])
        /\ Len(ret.train) + Len(ret.test) = Len(df)

\* C5 (as stated): each group of size g puts round(g * ratio) of its names
\* in the test list and the rest in the train list, so that every record's
\* name appears in exactly one of the two lists and the lists together have
\* as many entries as the catalog has records.
C5_ExactlyOneList ==
    (ret.op = "split_train_and_test" /\ UniquePaths(ret.pre[ret.self])) =>
        /\ C5_GroupsSplit
        /\ \A n \in NamesOf(ret.pre[ret.self]) :
              (n \in ElemsOf(ret.train)) # (n \in ElemsOf(ret.test))

\* C5 (amended): each group of size g puts round(g * ratio) of its names in
\* the test list and the rest in the train list, so that the two lists
\* together hold every name once per record carrying it and have as many
\* entries as the catalog has records; a name carried by one record appears
\* in exactly one list.
C5_OncePerRecord ==
    ret.op = "split_train_and_test" =>
        /\ C5_GroupsSplit
        /\ BagOfSeq(ret.train) (+) BagOfSeq(ret.test)
              = BagOfSeq(name_col(ret.pre[ret.self]))
        /\ \A n \in NamesOf(ret.pre[ret.self]) :
              NameCount(ret.pre[ret.self], n) = 1 =>
                 (n \in ElemsOf(ret.train)) # (n \in ElemsOf(ret.test))

\* C5 witness: a split at ratio 1/2 of a catalog with a group of three
\* records has put two of its names in test (1.5 rounds to 2) and one in
\* train.
C5_Witness ==
    /\ ret.op = "split_train_and_test"
    /\ ret.ratio = <<1, 2>>
    /\ Len(ret.pre[ret.self]) = 3
    /\ Len(ret.parts) = 1
    /\ Len(ret.test) = 2
    /\ Len(ret.train) = 1

\* C6: two successive calls of split_train_and_test with the same ratio on
\* an unchanged catalog return the same train list and the same test list,
\* whatever ran between them and whatever state the generator was in.
C6_SameSplit ==
    (/\ ret.op = "split_train_and_test"
     /\ prev_split.op = "split_train_and_test"
     /\ prev_split.self = ret.self
     /\ prev_split.ratio = ret.ratio
     /\ prev_split.pre[prev_split.self] = ret.pre[ret.self]) =>
        /\ ret.train = prev_split.train
        /\ ret.test = prev_split.test

\* C6 witness: the second of two such calls, in a run in which split_n has
\* run too, on a group of three records with two names, has returned the
\* same non-empty lists as the first.
C6_Witness ==
    /\ ret.op = "split_train_and_test"
    /\ prev_split.op = "split_train_and_test"
    /\ prev_split.ratio = ret.ratio
    /\ prev_split.pre = ret.pre
    /\ <<"/", "out", "0">> \in fs
    /\ Len(ret.parts) = 1
    /\ Cardinality(ElemsOf(ret.train) \cup ElemsOf(ret.test)) = 2
    /\ Len(ret.test) = 2
    /\ Len(ret.train) = 1
    /\ ret.train = prev_split.train
    /\ ret.test = prev_split.test

\* ------------------------------------------------------------------------
\* Claims about the bulk operations
\* ------------------------------------------------------------------------
\* the absnames of the rows of a group, as a bag
GroupPaths(df, key) ==
    BagOfSeq(absname_col(
        SelectSeq(df, LAMBDA row : <<row.region, row.sat_name>> = key)))

Abs(x) == IF x < 0 THEN -x ELSE x

\* C7: for every n >= 1 and every dst_paths argument, split_n cuts each
\* group's shuffled path list into n contiguous chunks whose sizes sum to
\* the group size and differ by at most 1, and hands chunk i to destination
\* i, so that every path is assigned to exactly one destination (stated for
\* the calls that ran to their end).
C7_EveryPathAssigned ==
    (ret.op = "split_n" /\ ~ret.raised /\ UniquePaths(ret.pre[ret.self])) =>
        LET df == ret.pre[ret.self]
        IN  /\ {<<ret.handed[k].region, ret.handed[k].sat_name>> :
                    k \in DOMAIN ret.handed} = GroupKeys(df)
            /\ Len(ret.handed) = Cardinality(GroupKeys(df))
            /\ \A k \in DOMAIN ret.handed :
                  LET h == ret.handed[k]
                      chunks == [i \in DOMAIN h.pairs |-> h.pairs[i][1]]
                  IN  /\ BagOfSeq(h.shuffled)
                            = GroupPaths(df, <<h.region, h.sat_name>>)
                      /\ Len(chunks) <= ret.n
                      /\ \A i \in DOMAIN h.pairs :
                            h.pairs[i][2] = ret.dst_paths[i]
                      /\ Flatten(chunks) = h.shuffled
                      /\ \A i, j \in DOMAIN chunks :
                            Abs(Len(chunks[i]) - Len(chunks[j])) <= 1

\* C8: in split_n and copy_scenes a transfer whose destination directory
\* already exists is skipped and raises no error (so a second run over the
\* destinations of a completed first run transfers nothing and completes).
C8_ExistingSkipped ==
    (ret.op \in {"split_n", "copy_scenes"} /\ UniquePaths(ret.pre[ret.self])) =>
        \A i \in DOMAIN ret.log :
            ret.log[i].existed => ret.log[i].outcome = "skipped"

\* the size of chunk k of n of a list of g entries
ChunkSize(g, n, k) == (g \div n) + (IF k <= g % n THEN 1 ELSE 0)

\* the sum of the values of a function
RECURSIVE Sum(_)
Sum(f) ==
    IF DOMAIN f = {} THEN 0
    ELSE LET x == CHOOSE y \in DOMAIN f : TRUE
         IN  f[x] + Sum([y \in DOMAIN f \ {x} |-> f[y]])

\* the number of paths a bulk operation has to go through
BatchSize(r) ==
    LET df == r.pre[r.self]
    IN  CASE r.op = "move_duplicated" -> Cardinality(LaterOccurrences(df))
          [] r.op = "copy_scenes" -> Cardinality(ElemsOf(absname_col(df)))
          [] r.op = "copy_labels" -> Len(df)
          [] r.op = "split_n" ->
                LET used == IF Len(r.dst_paths) < r.n
                            THEN Len(r.dst_paths) ELSE r.n
                    of_group(key) ==
                        Sum([k \in 1..used |->
                                ChunkSize(GroupSize(df, key), r.n, k)])
                IN  Sum([key \in GroupKeys(df) |-> of_group(key)])

BulkOps == {"move_duplicated", "copy_scenes", "copy_labels", "split_n"}

\* C9: in every bulk operation, when the transfer of one path fails, the
\* remaining paths of the batch are still gone through: the log of the
\* operation holds every path of the batch.
C9_FailureDoesNotAbort ==
    (ret.op \in BulkOps /\ UniquePaths(ret.pre[ret.self])) =>
        Len(ret.log) = BatchSize(ret)

\* ------------------------------------------------------------------------
\* Satellite-name resolver
\* ------------------------------------------------------------------------
SATELLITE_NAMES ==
    << <<"W","V","3">>, <<"W","V","2">>, <<"W","V","1">>, <<"K","3">>,
       <<"K","3","A">>, <<"S","K","Y","S","A","T">>,
       <<"P","L","A","N","E","T","S","C","O","P","E">> >>

UNKNOWN == <<"U","N","K","N","O","W","N">>

K3 == SATELLITE_NAMES[4]
K3A == SATELLITE_NAMES[5]

_get_satellite_name(p) ==
    LET up == upper(p)
        sat_match_indices ==
            [i \in 1..Len(SATELLITE_NAMES) |-> rfind(up, SATELLITE_NAMES[i])]
        sat_idx == argmax(sat_match_indices)
    IN  IF sat_match_indices[sat_idx + 1] # -1
        THEN SATELLITE_NAMES[sat_idx + 1]
        ELSE UNKNOWN

\* The pieces paths are put together from: sensor names in both cases,
\* fragments of them, separators and unrelated text.
Segments ==
    { <<"K","3">>, <<"k","3","a">>, <<"W","V","3">>,
      <<"w","v","2">>, <<"W","V","1">>, <<"S","k","y","S","a","t">>,
      <<"p","l","a","n","e","t","s","c","o","p","e">>,
      <<"/">>, <<"i","m","g">>, <<"A">> }

Paths == {Flatten(ss) : ss \in SeqsUpTo(Segments, MaxSegs)}

InitSat ==
    /\ path \in Paths
    /\ sat_ret = NoRet
    /\ gdf = [m \in Mgrs |-> <<>>]
    /\ ret = NoCall
    /\ InitPartIdle

ResolveSatellite ==
    /\ sat_ret = NoRet
    /\ sat_ret' = _get_satellite_name(path)
    /\ UNCHANGED <<path, gdf, ret, partVars, bulk_calls>>

NextSat == ResolveSatellite

SpecSat == InitSat /\ [][NextSat]_vars

\* ------------------------------------------------------------------------
\* Claims about the resolver
\* ------------------------------------------------------------------------
\* the 0-based start positions at which name occurs in the upper-cased path
Occurrences(p, name) ==
    LET up == upper(p)
    IN  {i \in 0..(Len(p) - Len(name)) : SubSeq(up, i + 1, i + Len(name)) = name}

SetMax(S) == CHOOSE m \in S : \A x \in S : x <= m

NameIndices == 1..Len(SATELLITE_NAMES)

\* C4: the resolver returns UNKNOWN exactly when no sensor name is a
\* substring of the upper-cased path; otherwise it returns the name whose
\* rightmost occurrence starts at the greatest index, and among the names
\* tied at that index the one earliest in SATELLITE_NAMES.
C4_RightmostMatch ==
    sat_ret # NoRet =>
        LET present == {i \in NameIndices :
                            Occurrences(path, SATELLITE_NAMES[i]) # {}}
            right(i) == SetMax(Occurrences(path, SATELLITE_NAMES[i]))
        IN  /\ (sat_ret = UNKNOWN) <=> (present = {})
            /\ present # {} =>
                 \E w \in present :
                    /\ sat_ret = SATELLITE_NAMES[w]
                    /\ \A v \in present : right(v) <= right(w)
                    /\ \A v \in present : right(v) = right(w) => w <= v

\* C4 witness: a path with k3a, then WV3, then K3 rightmost has been
\* resolved, and the answer is K3.
C4_Witness ==
    /\ path = <<"k","3","a","W","V","3","K","3">>
    /\ sat_ret = K3

\* C10: the resolver never returns K3A; its results are the other names of
\* SATELLITE_NAMES and UNKNOWN.
C10_NeverK3A ==
    sat_ret # NoRet =>
        /\ sat_ret # K3A
        /\ sat_ret \in ({SATELLITE_NAMES[i] : i \in NameIndices} \ {K3A})
                        \cup {UNKNOWN}

\* C10 witness: a path whose rightmost sensor name is K3A has been resolved,
\* and the answer is K3.
C10_Witness ==
    /\ sat_ret = K3
    /\ Occurrences(path, K3A) # {}
    /\ \A i \in NameIndices :
          Occurrences(path, SATELLITE_NAMES[i]) # {} =>
             SetMax(Occurrences(path, SATELLITE_NAMES[i]))
                <= SetMax(Occurrences(path, K3A))
====
